---- MODULE Spec2Model ----
(***************************************************************************)
(* Scene assembly and aerial-imagery alignment of the GeoJSON viewer.      *)
(*                                                                         *)
(* The model follows the ThreeScene component (its render, its two         *)
(* effects and the asynchronous scene setup) and the loadAerialImagery     *)
(* pipeline (terrain file callback, image fetch, fallback texture, the     *)
(* "terrain" group and its visibility toggle).                             *)
(***************************************************************************)
EXTENDS Integers, Sequences, FiniteSets, TLC

(* ------------------------------ bounds --------------------------------- *)

\* most geometry files a venue lists
MaxGeo == 5
\* planar coordinates range over 0..MaxCoord
MaxCoord == 1
\* most features of a terrain collection
MaxFeatures == 1
\* most points of a polygon's outer ring
MaxRing == 1
\* calls of loadAerialImagery against one scene
MaxRuns == 3
\* the scene setup is followed for at most this many starts of the loaders
MaxStarts == 2

Coord == 0..MaxCoord
Points == Coord \X Coord
Runs == 1..MaxRuns

(* ------------------------ the venue manifest --------------------------- *)

\* data[place] for a key the manifest does not hold
Undefined == [present |-> FALSE]

\* A venue's descriptor; center <<>> stands for a descriptor declaring none.
VenueDescriptors ==
    [present : {TRUE}, nGeo : 1..MaxGeo, networkFile : BOOLEAN,
     terrainFile : BOOLEAN, center : Points \cup {<<>>}]

\* the two versions of loadAerialImagery: the one fetching a real image and
\* the one that only draws the placeholder
Variants == {"fetch", "placeholder"}

(* ------------------------- terrain collections ------------------------- *)

BoundedSeq(S, n) == UNION {[1..k -> S] : k \in 0..n}

\* feature.geometry is null
NoGeometry == [geometry |-> FALSE, coordinates |-> <<>>]

\* a feature: no geometry, a geometry with an empty coordinates array, or a
\* polygon given by its outer ring coordinates[0]
Features ==
    {NoGeometry}
    \cup {[geometry |-> TRUE, coordinates |-> <<>>]}
    \cup {[geometry |-> TRUE, coordinates |-> <<ring>>] :
            ring \in BoundedSeq(Points, MaxRing)}

TerrainDocs == BoundedSeq(Features, MaxFeatures)

\* feature.geometry!.coordinates and coordinates[0].forEach throw a
\* TypeError on a null geometry and on an empty coordinates array
FeatureThrows(f) == ~f.geometry \/ Len(f.coordinates) = 0

\* the terrain callback's scan of fgData.features throws
CallbackThrows(doc) == \E i \in DOMAIN doc : FeatureThrows(doc[i])

\* what the scan can do over the documents a terrain file may hold
TerrainOutcomes == {CallbackThrows(doc) : doc \in TerrainDocs}

(* ------------------------------- state --------------------------------- *)

VARIABLES
    selectedData,       \* data[place]
    variant,            \* the version of loadAerialImagery in the build
    pc,                 \* the component: constructed, rendered, mounted, ...
    center,             \* the center state, [0, 0] at first
    scan,               \* calculateCenterPoint: none, running, done, failed
    dirty,              \* setCenter was called, the re-render is pending
    setups,             \* scene setups awaiting renderer.init(), by center
    loaderStarts,       \* times the setup reached the loader calls
    geo,                \* per geometry file: st and the origin it was given
    net,                \* the network pair: st and origin
    run,                \* per loadAerialImagery call: st, origin, dec, image
    terrain,            \* the scene's groups named "terrain", each its planes
    toggles,            \* "aerialImagery" controls added to the GUI
    loadFileRemaining,  \* the load counter
    res,                \* renderer, controls and GUI
    meshLines,          \* the network's line geometries
    probe               \* a call of one of the pure functions: fn, its
                        \* arguments and its result

vars == <<selectedData, variant, pc, center, scan, dirty, setups, loaderStarts,
          geo, net, run, terrain, toggles, loadFileRemaining, res, meshLines,
          probe>>

(* ------------------------ ThreeScene: the render ----------------------- *)

\* geoFiles = selectedData && selectedData.geoFiles.map(...)
GeoFiles(sd) ==
    IF sd.present THEN [defined |-> TRUE, length |-> sd.nGeo]
    ELSE [defined |-> FALSE, length |-> 0]

NetworkFile(sd) == sd.present /\ sd.networkFile

TerrainFile(sd) == sd.present /\ sd.terrainFile

\* geoFiles.length is read with no guard: a TypeError when geoFiles is
\* undefined
TotalFileCountThrows(sd) == ~GeoFiles(sd).defined

TotalFileCount(sd) ==
    GeoFiles(sd).length + (IF NetworkFile(sd) THEN 1 ELSE 0)
                        + (IF TerrainFile(sd) THEN 1 ELSE 0)

\* setLoadFileRemaining((prev) => prev - 1), the setter of the component's
\* useState: React drops the state updates of a component that has unmounted
SetLoadFileRemaining(prev) == IF pc = "unmounted" THEN prev ELSE prev - 1

\* setCenter(c), the setter of the center state, dropped likewise
SetCenter(c) == IF pc = "unmounted" THEN center ELSE c

\* no pure function has been called
NoCall == [fn |-> "none"]

IdleRun == [st |-> "idle", origin |-> <<>>, dec |-> 0, image |-> "none"]

Init ==
    /\ selectedData \in VenueDescriptors \cup {Undefined}
    /\ variant \in Variants
    /\ pc = "constructed"
    /\ center = <<0, 0>>
    /\ scan = "none"
    /\ dirty = FALSE
    /\ setups = <<>>
    /\ loaderStarts = 0
    /\ geo = [i \in 1..GeoFiles(selectedData).length |->
                [st |-> "idle", origin |-> <<>>]]
    /\ net = [st |-> IF NetworkFile(selectedData) THEN "idle" ELSE "none",
              origin |-> <<>>]
    /\ run = [r \in Runs |-> IdleRun]
    /\ terrain = <<>>
    /\ toggles = 0
    /\ loadFileRemaining = IF TotalFileCountThrows(selectedData) THEN 0
                           ELSE TotalFileCount(selectedData)
    /\ res = [renderer |-> "none", controls |-> "none", gui |-> "none"]
    /\ meshLines = <<>>
    /\ probe = NoCall

\* The function body up to its return: totalFileCount and source.text are
\* read before the JSX that would show the "no data" paragraph.
Render ==
    /\ pc = "constructed"
    /\ pc' = IF TotalFileCountThrows(selectedData) THEN "crashed"
             ELSE IF ~selectedData.present THEN "noData"
             ELSE "rendered"
    /\ UNCHANGED <<probe,
                   selectedData, variant, center, scan, dirty, setups,
                   loaderStarts, geo, net, run, terrain, toggles,
                   loadFileRemaining, res, meshLines>>

(* ------------------------ ThreeScene: the effects ---------------------- *)

\* The center effect without the return after setCenter(selectedData.center).
CenterEffectNoReturn ==
    IF selectedData.center # <<>>
    THEN center' = SetCenter(selectedData.center) /\ dirty' = TRUE
         /\ scan' = "running"
    ELSE scan' = "running" /\ UNCHANGED <<center, dirty>>

\* The center effect scanning the files whether or not a center is declared.
CenterEffectAlwaysScans == scan' = "running" /\ UNCHANGED <<center, dirty>>

\* useEffect(..., []): a declared center is taken, otherwise
\* calculateCenterPoint is started.
CenterEffect ==
    IF selectedData.center # <<>>
    THEN center' = SetCenter(selectedData.center) /\ dirty' = TRUE
         /\ UNCHANGED scan
    ELSE scan' = "running" /\ UNCHANGED <<center, dirty>>

\* The load effect without the check that the center was updated.
LoadEffectNoGuard(c) == setups' = Append(setups, c)

\* useEffect(..., [center, setLoadFileRemaining]) run with the center c of
\* its render: skipped while c is [0, 0], otherwise the asynchronous setup
\* starts and awaits renderer.init().
LoadEffect(c) ==
    IF c[1] = 0 /\ c[2] = 0
    THEN UNCHANGED setups
    ELSE setups' = Append(setups, c)

\* The first commit: both effects run, the load effect with the center of
\* the first render.
MountEffects ==
    /\ pc = "rendered"
    /\ pc' = "mounted"
    /\ CenterEffect
    /\ LoadEffect(center)
    /\ UNCHANGED <<probe,
                   selectedData, variant, loaderStarts, geo, net, run,
                   terrain, toggles, loadFileRemaining, res, meshLines>>

\* calculateCenterPoint resolves and setCenter takes the computed point.
ScanDone ==
    /\ scan = "running"
    /\ \E c \in Points : center' = SetCenter(c)
    /\ scan' = "done"
    /\ dirty' = (dirty \/ pc # "unmounted")
    /\ UNCHANGED <<probe,
                   selectedData, variant, pc, setups, loaderStarts, geo, net,
                   run, terrain, toggles, loadFileRemaining, res, meshLines>>

\* calculateCenterPoint rejects: nothing handles it and center stays.
ScanFailed ==
    /\ scan = "running"
    /\ scan' = "failed"
    /\ UNCHANGED <<probe,
                   selectedData, variant, pc, center, dirty, setups,
                   loaderStarts, geo, net, run, terrain, toggles,
                   loadFileRemaining, res, meshLines>>

\* The re-render after setCenter: the load effect's dependency changed, so
\* it runs again with the new center.
Commit ==
    /\ pc = "mounted"
    /\ dirty
    /\ dirty' = FALSE
    /\ LoadEffect(center)
    /\ UNCHANGED <<probe,
                   selectedData, variant, pc, center, scan, loaderStarts, geo,
                   net, run, terrain, toggles, loadFileRemaining, res,
                   meshLines>>

(* ---------------------- ThreeScene: the scene setup -------------------- *)

\* loader.load(terrainFile, callback) of call r, with origin c
LoadAerialImageryCall(rn, r, c) ==
    [rn EXCEPT ![r] = [@ EXCEPT !.st = "fetching", !.origin = c]]

\* After renderer.init(): renderer, controls and GUI exist and every loader
\* is called with the center the effect closed over.
SetupScene ==
    /\ setups # <<>>
    /\ loaderStarts < MaxStarts
    /\ LET c == Head(setups) IN
        /\ geo' = [i \in DOMAIN geo |-> [st |-> "loading", origin |-> c]]
        /\ net' = IF NetworkFile(selectedData)
                  THEN [st |-> "loading", origin |-> c]
                  ELSE net
        /\ run' = IF TerrainFile(selectedData)
                  THEN LoadAerialImageryCall(run, 1, c)
                  ELSE run
    /\ setups' = Tail(setups)
    /\ loaderStarts' = loaderStarts + 1
    /\ res' = [renderer |-> "live", controls |-> "live", gui |-> "live"]
    /\ UNCHANGED <<probe,
                   selectedData, variant, pc, center, scan, dirty, terrain,
                   toggles, loadFileRemaining, meshLines>>

\* loadAndAddToScene settles one file, loaded or failed and handled, and
\* decrements the counter once.
GeoSettled(i) ==
    /\ i \in DOMAIN geo
    /\ geo[i].st = "loading"
    /\ geo' = [geo EXCEPT ![i].st = "settled"]
    /\ loadFileRemaining' = SetLoadFileRemaining(loadFileRemaining)
    /\ UNCHANGED <<probe,
                   selectedData, variant, pc, center, scan, dirty, setups,
                   loaderStarts, net, run, terrain, toggles, res, meshLines>>

\* loadNetworkFile settles the node and link pair: one line geometry is
\* pushed to meshLines and the counter is decremented once.
NetworkSettled ==
    /\ net.st = "loading"
    /\ net' = [net EXCEPT !.st = "settled"]
    /\ meshLines' = Append(meshLines, "live")
    /\ loadFileRemaining' = SetLoadFileRemaining(loadFileRemaining)
    /\ UNCHANGED <<probe,
                   selectedData, variant, pc, center, scan, dirty, setups,
                   loaderStarts, geo, run, terrain, toggles, res>>

(* ------------------------- ThreeScene: teardown ------------------------ *)

\* What the load effect's callback hands to React as its cleanup: the
\* callback only invokes the async function and returns nothing; the
\* function returning the cleanup is the async one, whose promise is dropped.
EffectCleanup == "undefined"

\* the cleanup the async function returns
Cleanup ==
    /\ res' = [renderer |-> "disposed", controls |-> "disposed",
               gui |-> "destroyed"]
    /\ meshLines' = [i \in DOMAIN meshLines |-> "disposed"]
    /\ terrain' = <<>>

\* The component unmounts; React runs the cleanup the effect registered.
Unmount ==
    /\ pc = "mounted"
    /\ pc' = "unmounted"
    /\ IF EffectCleanup = "cleanup" /\ res.renderer = "live"
       THEN Cleanup
       ELSE UNCHANGED <<res, meshLines, terrain>>
    /\ UNCHANGED <<probe,
                   selectedData, variant, center, scan, dirty, setups,
                   loaderStarts, geo, net, run, toggles, loadFileRemaining>>

(* --------------------------- loadAerialImagery ------------------------- *)

Plane(r, texture) == [run |-> r, texture |-> texture]

\* createFallbackTexture adding the toggle whether or not the group exists
AddFallbackPlaneAlwaysToggle(plane) ==
    /\ terrain' = IF Len(terrain) > 0
                  THEN [terrain EXCEPT ![1] = Append(@, plane)]
                  ELSE << <<plane>> >>
    /\ toggles' = toggles + 1

\* createRealAerialImageryTexture creating its group without the lookup
AddImagePlaneNewGroup(plane) ==
    /\ terrain' = Append(terrain, <<plane>>)
    /\ toggles' = IF terrain = <<>> THEN toggles + 1 ELSE toggles

\* createRealAerialImageryTexture: scene.getObjectByName("terrain"), then
\* add to that group, or create the group and the GUI control
AddImagePlane(plane) ==
    IF Len(terrain) > 0
    THEN terrain' = [terrain EXCEPT ![1] = Append(@, plane)]
         /\ UNCHANGED toggles
    ELSE terrain' = Append(terrain, <<plane>>) /\ toggles' = toggles + 1

\* createFallbackTexture: the same lookup and insertion
AddFallbackPlane(plane) ==
    IF Len(terrain) > 0
    THEN terrain' = [terrain EXCEPT ![1] = Append(@, plane)]
         /\ UNCHANGED toggles
    ELSE terrain' = Append(terrain, <<plane>>) /\ toggles' = toggles + 1

\* createAerialImageryTexture of the placeholder-only version
AddPlaceholderPlane(plane) ==
    IF Len(terrain) > 0
    THEN terrain' = [terrain EXCEPT ![1] = Append(@, plane)]
         /\ UNCHANGED toggles
    ELSE terrain' = Append(terrain, <<plane>>) /\ toggles' = toggles + 1

\* A further call of the exported loadAerialImagery with the same scene, GUI,
\* counter and center.
CallLoadAerialImagery(r) ==
    /\ run[r].st = "idle"
    /\ run' = LoadAerialImageryCall(run, r, center)
    /\ UNCHANGED <<probe,
                   selectedData, variant, pc, center, scan, dirty, setups,
                   loaderStarts, geo, net, terrain, toggles,
                   loadFileRemaining, res, meshLines>>

\* The terrain file cannot be fetched: loader.load was given no onError, so
\* nothing of loadAerialImagery runs.
TerrainFetchFailed(r) ==
    /\ run[r].st = "fetching"
    /\ run' = [run EXCEPT ![r].st = "fetchFailed"]
    /\ UNCHANGED <<probe,
                   selectedData, variant, pc, center, scan, dirty, setups,
                   loaderStarts, geo, net, terrain, toggles,
                   loadFileRemaining, res, meshLines>>

\* The callback of the fetching version with the decrement left to the
\* placement of the plane.
TerrainLoadedFetchNoDecrement(r) ==
    /\ variant = "fetch"
    /\ run[r].st = "fetching"
    /\ \E throws \in TerrainOutcomes :
         run' = [run EXCEPT ![r].st = IF throws THEN "threw"
                                      ELSE "textureLoading",
                            ![r].image = IF throws THEN @ ELSE "pending"]
    /\ UNCHANGED <<probe,
                   selectedData, variant, pc, center, scan, dirty, setups,
                   loaderStarts, geo, net, terrain, toggles,
                   loadFileRemaining, res, meshLines>>

\* The terrain callback of the fetching version: the scan of the features
\* (which may throw), createRealAerialImageryTexture up to its first await,
\* then the decrement.
TerrainLoadedFetch(r) ==
    /\ variant = "fetch"
    /\ run[r].st = "fetching"
    /\ \E throws \in TerrainOutcomes :
         IF throws
         THEN /\ run' = [run EXCEPT ![r].st = "threw"]
              /\ UNCHANGED loadFileRemaining
         ELSE /\ run' = [run EXCEPT ![r].st = "textureLoading",
                                    ![r].image = "pending",
                                    ![r].dec = @ + 1]
              /\ loadFileRemaining' = SetLoadFileRemaining(loadFileRemaining)
    /\ UNCHANGED <<probe,
                   selectedData, variant, pc, center, scan, dirty, setups,
                   loaderStarts, geo, net, terrain, toggles, res, meshLines>>

\* The terrain callback of the placeholder-only version: the scan, the
\* placeholder plane added at once, then the decrement.
TerrainLoadedPlaceholder(r) ==
    /\ variant = "placeholder"
    /\ run[r].st = "fetching"
    /\ \E throws \in TerrainOutcomes :
         IF throws
         THEN /\ run' = [run EXCEPT ![r].st = "threw"]
              /\ UNCHANGED <<loadFileRemaining, terrain, toggles>>
         ELSE /\ AddPlaceholderPlane(Plane(r, "placeholder"))
              /\ run' = [run EXCEPT ![r].st = "placed", ![r].dec = @ + 1]
              /\ loadFileRemaining' = SetLoadFileRemaining(loadFileRemaining)
    /\ UNCHANGED <<probe,
                   selectedData, variant, pc, center, scan, dirty, setups,
                   loaderStarts, geo, net, res, meshLines>>

\* textureLoader.load resolves: the plane with the fetched image is added.
ImageLoaded(r) ==
    /\ run[r].st = "textureLoading"
    /\ AddImagePlane(Plane(r, "image"))
    /\ run' = [run EXCEPT ![r].st = "placed", ![r].image = "loaded"]
    /\ UNCHANGED <<probe,
                   selectedData, variant, pc, center, scan, dirty, setups,
                   loaderStarts, geo, net, loadFileRemaining, res, meshLines>>

\* The rejection with no catch block: it reaches the .catch of
\* loadAerialImagery, which only logs it.
ImageRejectedUnhandled(r) ==
    /\ run[r].st = "textureLoading"
    /\ run' = [run EXCEPT ![r].st = "logged", ![r].image = "rejected"]
    /\ UNCHANGED <<probe,
                   selectedData, variant, pc, center, scan, dirty, setups,
                   loaderStarts, geo, net, terrain, toggles,
                   loadFileRemaining, res, meshLines>>

\* textureLoader.load rejects: the catch block calls createFallbackTexture,
\* which adds the plane with the generated texture.
ImageRejected(r) ==
    /\ run[r].st = "textureLoading"
    /\ AddFallbackPlane(Plane(r, "placeholder"))
    /\ run' = [run EXCEPT ![r].st = "placed", ![r].image = "rejected"]
    /\ UNCHANGED <<probe,
                   selectedData, variant, pc, center, scan, dirty, setups,
                   loaderStarts, geo, net, loadFileRemaining, res, meshLines>>

(* ---------------------------- specifications --------------------------- *)

Aligner(r) ==
    \/ TerrainFetchFailed(r)
    \/ TerrainLoadedFetch(r)
    \/ TerrainLoadedPlaceholder(r)
    \/ ImageLoaded(r)
    \/ ImageRejected(r)

Next ==
    \/ Render
    \/ MountEffects
    \/ ScanDone
    \/ ScanFailed
    \/ Commit
    \/ SetupScene
    \/ \E i \in 1..MaxGeo : GeoSettled(i)
    \/ NetworkSettled
    \/ \E r \in Runs : Aligner(r)
    \/ Unmount

\* one venue session of ThreeScene
Spec == Init /\ [][Next]_vars

\* A session whose scene is set up, with a terrain file and one geometry
\* file already settled, in which loadAerialImagery is called again.
InitRuns ==
    /\ \E c \in Points \ {<<0, 0>>} :
        /\ selectedData = [present |-> TRUE, nGeo |-> 1, networkFile |-> FALSE,
                           terrainFile |-> TRUE, center |-> c]
        /\ center = c
        /\ geo = <<[st |-> "settled", origin |-> c]>>
        /\ run = LoadAerialImageryCall([r \in Runs |-> IdleRun], 1, c)
    /\ variant \in Variants
    /\ pc = "mounted"
    /\ scan = "none"
    /\ dirty = FALSE
    /\ setups = <<>>
    /\ loaderStarts = 1
    /\ net = [st |-> "none", origin |-> <<>>]
    /\ terrain = <<>>
    /\ toggles = 0
    /\ loadFileRemaining = 1
    /\ res = [renderer |-> "live", controls |-> "live", gui |-> "live"]
    /\ meshLines = <<>>
    /\ probe = NoCall

NextRuns ==
    \E r \in Runs :
        \/ CallLoadAerialImagery(r)
        \/ Aligner(r)

\* several runs of loadAerialImagery against one scene
SpecRuns == InitRuns /\ [][NextRuns]_vars

(* --------------------------- exact arithmetic -------------------------- *)

\* Numbers of the coordinate functions are kept as fractions <<n, d>>, d > 0,
\* in lowest terms.

Abs(n) == IF n < 0 THEN -n ELSE n

RECURSIVE Gcd(_, _)
Gcd(a, b) == IF b = 0 THEN a ELSE Gcd(b, a % b)

Norm(n, d) ==
    LET g == Gcd(Abs(n), d)
    IN  IF n = 0 THEN <<0, 1>> ELSE <<n \div g, d \div g>>

Lcm(a, b) == (a \div Gcd(a, b)) * b

RInt(n) == <<n, 1>>

RAdd(a, b) ==
    LET l == Lcm(a[2], b[2])
    IN  Norm(a[1] * (l \div a[2]) + b[1] * (l \div b[2]), l)

RNeg(a) == <<-a[1], a[2]>>

RSub(a, b) == RAdd(a, RNeg(b))

\* a / k for an integer k > 0
RDivInt(a, k) ==
    LET g == Gcd(Abs(a[1]), k)
    IN  IF a[1] = 0 THEN <<0, 1>> ELSE <<a[1] \div g, a[2] * (k \div g)>>

\* a <= b, by integer parts and then the reciprocals of the fractional parts
RECURSIVE RLeq(_, _)
RLeq(a, b) ==
    LET fa == a[1] \div a[2]
        fb == b[1] \div b[2]
        ra == a[1] % a[2]
        rb == b[1] % b[2]
    IN  IF fa # fb THEN fa < fb
        ELSE IF ra = 0 THEN TRUE
        ELSE IF rb = 0 THEN FALSE
        ELSE RLeq(<<b[2], rb>>, <<a[2], ra>>)

RAbs(a) == <<Abs(a[1]), a[2]>>

(* -------------------------- coordinateTransform ------------------------ *)

meterPerDegreeLat == 111320
meterPerDegreeLon == 91290

\* planar offsets in metres handed to the transform
Offsets == (0 - MaxCoord)..MaxCoord

\* geographic anchors, in degrees
AnchorLats == {RInt(0), RInt(35), <<3517, 100>>, RInt(-35)}
AnchorLons == {RInt(0), RInt(137), <<-3422, 25>>}

transformToLatLon(x, y, centerLat, centerLon) ==
    LET deltaLat == RDivInt(RInt(y), meterPerDegreeLat)
        deltaLon == RDivInt(RInt(x), meterPerDegreeLon)
    IN  [lat |-> RAdd(centerLat, deltaLat), lon |-> RAdd(centerLon, deltaLon)]

\* calculateLatLonBounds taking the south-west corner from (maxX, minY)
calculateLatLonBoundsSwapped(minX, maxX, minY, maxY, centerLat, centerLon) ==
    LET sw == transformToLatLon(maxX, minY, centerLat, centerLon)
        ne == transformToLatLon(minX, maxY, centerLat, centerLon)
    IN  [southwest |-> sw, northeast |-> ne,
         center |-> [lat |-> RDivInt(RAdd(sw.lat, ne.lat), 2),
                     lon |-> RDivInt(RAdd(sw.lon, ne.lon), 2)]]

calculateLatLonBounds(minX, maxX, minY, maxY, centerLat, centerLon) ==
    LET sw == transformToLatLon(minX, minY, centerLat, centerLon)
        ne == transformToLatLon(maxX, maxY, centerLat, centerLon)
    IN  [southwest |-> sw, northeast |-> ne,
         center |-> [lat |-> RDivInt(RAdd(sw.lat, ne.lat), 2),
                     lon |-> RDivInt(RAdd(sw.lon, ne.lon), 2)]]

\* calculateLatLonBounds is called on some planar bounds and anchor
CallCalculateLatLonBounds ==
    /\ probe.fn = "none"
    /\ \E minX, maxX, minY, maxY \in Offsets :
       \E lat \in AnchorLats, lon \in AnchorLons :
         probe' = [fn |-> "calculateLatLonBounds",
                   minX |-> minX, maxX |-> maxX, minY |-> minY, maxY |-> maxY,
                   out |-> calculateLatLonBounds(minX, maxX, minY, maxY,
                                                 lat, lon)]
    /\ UNCHANGED <<selectedData, variant, pc, center, scan, dirty, setups,
                   loaderStarts, geo, net, run, terrain, toggles,
                   loadFileRemaining, res, meshLines>>

(* --------------------------- calculateZoomLevel ------------------------ *)

RMulInt(a, k) ==
    LET g == Gcd(k, a[2]) IN <<a[1] * (k \div g), a[2] \div g>>

\* a / b for b > 0
RDiv(a, b) ==
    LET g1 == Gcd(Abs(a[1]), b[1])
        g2 == Gcd(a[2], b[2])
    IN  IF a[1] = 0 THEN <<0, 1>>
        ELSE <<(a[1] \div g1) * (b[2] \div g2),
               (a[2] \div g2) * (b[1] \div g1)>>

RECURSIVE Pow2(_)
Pow2(n) == IF n = 0 THEN 1 ELSE 2 * Pow2(n - 1)

\* A JavaScript number that is either +Infinity or a fraction.
PosInf == [inf |-> TRUE]
Fin(q) == [inf |-> FALSE, q |-> q]

\* n / d of JavaScript numbers for n > 0, d >= 0: n / 0 is +Infinity
Quot(n, d) == IF d[1] = 0 THEN PosInf ELSE Fin(RDiv(n, d))

\* A base-2 logarithm is kept by its argument: Log2(x) stands for the number
\* whose power of two is x, so subtracting logarithms divides arguments and
\* the smaller logarithm is that of the smaller argument.
Log2(x) == x

\* a - b for logarithms, b finite
LogSub(a, b) == IF a.inf THEN PosInf ELSE Fin(RDiv(a.q, b.q))

\* Math.min in which +Infinity is the smaller operand
LogMinInfinityWins(a, b) ==
    IF a.inf THEN a ELSE IF b.inf THEN b
    ELSE IF RLeq(a.q, b.q) THEN a ELSE b

\* Math.min of two logarithms
LogMin(a, b) ==
    IF a.inf THEN b ELSE IF b.inf THEN a
    ELSE IF RLeq(a.q, b.q) THEN a ELSE b

\* floor(log2(n / d)) for n, d > 0
RECURSIVE FloorLog2(_, _)
FloorLog2(n, d) ==
    IF n < d THEN FloorLog2(2 * n, d) - 1
    ELSE IF n >= 2 * d THEN FloorLog2(n, 2 * d) + 1
    ELSE 0

\* Math.floor of a logarithm; Math.floor(Infinity) is Infinity
LogFloor(a) ==
    IF a.inf THEN [inf |-> TRUE]
    ELSE [inf |-> FALSE, n |-> FloorLog2(a.q[1], a.q[2])]

\* Math.max(1, Math.min(20, zoom))
ClampZoom(zoom) ==
    LET upper == IF zoom.inf THEN 20 ELSE IF zoom.n < 20 THEN zoom.n ELSE 20
    IN  IF upper > 1 THEN upper ELSE 1

\* calculateZoomLevel returning the floored minimum as it is
calculateZoomLevelUnclamped(bounds, width, height) ==
    LET latDiff == RAbs(RSub(bounds.northeast.lat, bounds.southwest.lat))
        lonDiff == RAbs(RSub(bounds.northeast.lon, bounds.southwest.lon))
        latZoom == LogSub(Log2(Quot(RInt(360), latDiff)),
                          Log2(Fin(Norm(height, 256))))
        lonZoom == LogSub(Log2(Quot(RInt(360), lonDiff)),
                          Log2(Fin(Norm(width, 256))))
        zoom == LogFloor(LogMin(latZoom, lonZoom))
    IN  IF zoom.inf THEN 20 ELSE zoom.n

\* calculateZoomLevel without the image-size term
calculateZoomLevelNoPixels(bounds, width, height) ==
    LET latDiff == RAbs(RSub(bounds.northeast.lat, bounds.southwest.lat))
        lonDiff == RAbs(RSub(bounds.northeast.lon, bounds.southwest.lon))
        latZoom == Log2(Quot(RInt(360), latDiff))
        lonZoom == Log2(Quot(RInt(360), lonDiff))
        zoom == LogFloor(LogMin(latZoom, lonZoom))
    IN  ClampZoom(zoom)

calculateZoomLevel(bounds, width, height) ==
    LET latDiff == RAbs(RSub(bounds.northeast.lat, bounds.southwest.lat))
        lonDiff == RAbs(RSub(bounds.northeast.lon, bounds.southwest.lon))
        latZoom == LogSub(Log2(Quot(RInt(360), latDiff)),
                          Log2(Fin(Norm(height, 256))))
        lonZoom == LogSub(Log2(Quot(RInt(360), lonDiff)),
                          Log2(Fin(Norm(width, 256))))
        zoom == LogFloor(LogMin(latZoom, lonZoom))
    IN  ClampZoom(zoom)

\* latitudes and longitudes of the corners handed to calculateZoomLevel
ZoomLats == {RInt(0), <<1, 1000>>, <<1, 100000>>, RInt(10), RInt(90)}
ZoomLons == {RInt(0), <<1, 1000>>, RInt(10), RInt(180), RInt(-180)}

\* image sizes in pixels
ImageSizes == {128, 256, 640}

\* calculateZoomLevel is called on some bounds and image size
CallCalculateZoomLevel ==
    /\ probe.fn = "none"
    /\ \E swLat, neLat \in ZoomLats, swLon, neLon \in ZoomLons :
       \E width, height \in ImageSizes :
         LET bounds == [southwest |-> [lat |-> swLat, lon |-> swLon],
                        northeast |-> [lat |-> neLat, lon |-> neLon]]
         IN  probe' = [fn |-> "calculateZoomLevel",
                       latDiff |-> RAbs(RSub(neLat, swLat)),
                       lonDiff |-> RAbs(RSub(neLon, swLon)),
                       width |-> width, height |-> height,
                       out |-> calculateZoomLevel(bounds, width, height)]
    /\ UNCHANGED <<selectedData, variant, pc, center, scan, dirty, setups,
                   loaderStarts, geo, net, run, terrain, toggles,
                   loadFileRemaining, res, meshLines>>

(* ---------------------------- getAerialImageUrl ------------------------ *)

\* An environment variable: unset, or set to a string.
Unset == [set |-> FALSE]
EnvValues == {Unset} \cup {[set |-> TRUE, value |-> v] : v \in {"", "k1", "k2"}}

\* truthiness in which every set variable counts, the empty string included
TruthyWhenSet(v) == v.set

\* JavaScript truthiness of process.env.X: undefined and "" are falsy
Truthy(v) == v.set /\ v.value # ""

\* a || b
OrElse(a, b) == IF Truthy(a) THEN a ELSE b

\* Math.floor of a fraction
RFloor(a) == a[1] \div a[2]

\* the row index: Math.floor of the Mercator expression in center.lat and
\* zoom, left uninterpreted
MercatorTileY(lat, zoom) == [lat |-> lat, zoom |-> zoom]

\* The promise's outcome; the URL is kept by the parts interpolated into it.
getAerialImageUrl(bounds, zoom, width, height, env) ==
    LET googleMapsApiKey == OrElse(env.NEXT_PUBLIC_GOOGLE_MAPS_API_KEY,
                                   env.GOOGLE_MAPS_API_KEY)
        tileX == RFloor(RMulInt(RDivInt(RAdd(bounds.center.lon, RInt(180)),
                                        360),
                                Pow2(zoom)))
        tileY == MercatorTileY(bounds.center.lat, zoom)
    IN  IF Truthy(googleMapsApiKey)
        THEN [status |-> "fulfilled", api |-> "staticmap",
              center |-> <<bounds.center.lat, bounds.center.lon>>,
              zoom |-> zoom, size |-> <<width, height>>,
              maptype |-> "satellite", key |-> googleMapsApiKey.value]
        ELSE [status |-> "fulfilled", api |-> "tile",
              zoom |-> zoom, tileY |-> tileY, tileX |-> tileX]

\* centres and zoom levels handed to getAerialImageUrl
UrlLats == {RInt(0), <<3517, 100>>}
UrlLons == {RInt(-180), <<-3422, 25>>, RInt(0), <<4381, 32>>, RInt(180)}
UrlZooms == {1, 3, 17, 20}

\* getAerialImageUrl is called under some environment
CallGetAerialImageUrl ==
    /\ probe.fn = "none"
    /\ \E pub, srv \in EnvValues, lat \in UrlLats, lon \in UrlLons :
       \E zoom \in UrlZooms, width, height \in ImageSizes :
         LET env == [NEXT_PUBLIC_GOOGLE_MAPS_API_KEY |-> pub,
                     GOOGLE_MAPS_API_KEY |-> srv]
             bounds == [center |-> [lat |-> lat, lon |-> lon]]
         IN  probe' = [fn |-> "getAerialImageUrl", env |-> env,
                       center |-> bounds.center, zoom |-> zoom,
                       width |-> width, height |-> height,
                       out |-> getAerialImageUrl(bounds, zoom, width, height,
                                                 env)]
    /\ UNCHANGED <<selectedData, variant, pc, center, scan, dirty, setups,
                   loaderStarts, geo, net, run, terrain, toggles,
                   loadFileRemaining, res, meshLines>>

(* --------------------- the planar bounds of the terrain ---------------- *)

\* A JavaScript number of the scan: an integer, +Infinity, -Infinity or NaN.
Num(n) == [k |-> "fin", v |-> n]
Infinity == [k |-> "inf"]
NegInfinity == [k |-> "-inf"]
NaN == [k |-> "nan"]

\* Math.min(a, x) and Math.max(a, x) for a finite x
MathMin(a, x) ==
    CASE a.k = "nan" -> NaN
      [] a.k = "inf" -> Num(x)
      [] a.k = "-inf" -> a
      [] OTHER -> Num(IF a.v < x THEN a.v ELSE x)

MathMax(a, x) ==
    CASE a.k = "nan" -> NaN
      [] a.k = "-inf" -> Num(x)
      [] a.k = "inf" -> a
      [] OTHER -> Num(IF a.v > x THEN a.v ELSE x)

Negate(a) ==
    CASE a.k = "fin" -> Num(0 - a.v)
      [] a.k = "inf" -> NegInfinity
      [] a.k = "-inf" -> Infinity
      [] OTHER -> NaN

\* a + b
Plus(a, b) ==
    CASE a.k = "nan" \/ b.k = "nan" -> NaN
      [] a.k = "fin" /\ b.k = "fin" -> Num(a.v + b.v)
      [] a.k = "fin" -> b
      [] b.k = "fin" -> a
      [] a.k = b.k -> a
      [] OTHER -> NaN

\* a - b
Minus(a, b) == Plus(a, Negate(b))

\* a / 2, a finite value kept as a fraction
Half(a) == IF a.k = "fin" THEN [k |-> "fin", v |-> Norm(a.v, 2)] ELSE a

\* let minX = Infinity, maxX = -Infinity; let minY = Infinity, maxY = -Infinity
EmptyBounds ==
    [minX |-> Infinity, maxX |-> NegInfinity,
     minY |-> Infinity, maxY |-> NegInfinity]

\* the body of coordinates[0].forEach
ScanPoint(b, point, c) ==
    LET x == point[1] - c[1]
        y == point[2] - c[2]
    IN  [minX |-> MathMin(b.minX, x), maxX |-> MathMax(b.maxX, x),
         minY |-> MathMin(b.minY, y), maxY |-> MathMax(b.maxY, y)]

RECURSIVE ScanRing(_, _, _, _)
ScanRing(b, ring, i, c) ==
    IF i > Len(ring) THEN b
    ELSE ScanRing(ScanPoint(b, ring[i], c), ring, i + 1, c)

\* fgData.features.forEach over a collection whose scan does not throw
RECURSIVE ScanFeatures(_, _, _, _)
ScanFeatures(b, doc, i, c) ==
    IF i > Len(doc) THEN b
    ELSE ScanFeatures(ScanRing(b, doc[i].coordinates[1], 1, c), doc, i + 1, c)

\* the plane every texture function builds from the bounds it is handed
PlaneGeometry(b) ==
    [width |-> Minus(b.maxX, b.minX),
     height |-> Minus(b.maxY, b.minY),
     position |-> <<Half(Plus(b.minX, b.maxX)), Half(Plus(b.minY, b.maxY))>>]

\* The terrain callback runs over a loaded collection and hands its bounds
\* to the texture function, which places the plane.
CallScanBounds ==
    /\ probe.fn = "none"
    /\ \E doc \in TerrainDocs, c \in Points :
        /\ ~CallbackThrows(doc)
        /\ LET b == ScanFeatures(EmptyBounds, doc, 1, c)
           IN  probe' = [fn |-> "loadAerialImagery", doc |-> doc,
                         bounds |-> b, plane |-> PlaneGeometry(b)]
    /\ UNCHANGED <<selectedData, variant, pc, center, scan, dirty, setups,
                   loaderStarts, geo, net, run, terrain, toggles,
                   loadFileRemaining, res, meshLines>>

(* ------------------- the functions called on their own ----------------- *)

InitPure ==
    /\ Init
    /\ selectedData = Undefined
    /\ variant = "fetch"

NextPure ==
    \/ CallCalculateLatLonBounds
    \/ CallCalculateZoomLevel
    \/ CallGetAerialImageUrl
    \/ CallScanBounds

\* each function applied once to inputs drawn from its domain
SpecPure == InitPure /\ [][NextPure]_vars

(* ------------------------ notions the claims use ----------------------- *)

\* the center effect has set the scene origin
OriginResolved ==
    \/ selectedData.present /\ selectedData.center # <<>>
       /\ pc \in {"mounted", "unmounted"}
    \/ scan = "done"

\* the origins handed to the loaders called so far
StartedOrigins ==
    {geo[i].origin : i \in {j \in DOMAIN geo : geo[j].st # "idle"}}
    \cup (IF net.st \in {"loading", "settled"} THEN {net.origin} ELSE {})
    \cup {run[r].origin : r \in {q \in Runs : run[q].st # "idle"}}

\* call r of loadAerialImagery has a plane in a "terrain" group
PlacedBy(r) ==
    \E g \in DOMAIN terrain : \E k \in DOMAIN terrain[g] : terrain[g][k].run = r

\* loads of the session that have called the counter's setter
Decrements ==
    Cardinality({i \in DOMAIN geo : geo[i].st = "settled"})
    + (IF net.st = "settled" THEN 1 ELSE 0)
    + run[1].dec

\* every load the counter was sized for has ended
AllSettled ==
    /\ loaderStarts > 0
    /\ \A i \in DOMAIN geo : geo[i].st = "settled"
    /\ net.st \in {"none", "settled"}
    /\ TerrainFile(selectedData) =>
         run[1].st \in {"fetchFailed", "threw", "placed"}

(* -------------------------------- claims ------------------------------- *)

\* C1: the load counter starts at geoFiles.length + network + terrain, is
\* only ever decremented, once per settled load, stays within 0..total, and
\* is exactly 0 once every expected load has settled.
C1_CounterReachesZero ==
    (selectedData.present /\ pc # "unmounted") =>
        /\ loadFileRemaining \in 0..TotalFileCount(selectedData)
        /\ loadFileRemaining = TotalFileCount(selectedData) - Decrements
        /\ AllSettled => loadFileRemaining = 0

\* C2 as stated: a run has decremented the counter only when its plane is in
\* the "terrain" group, so the counter is never 0 with the plane un-placed.
C2_DecrementOnPlaced ==
    /\ \A r \in Runs : run[r].dec > 0 => PlacedBy(r)
    /\ (TerrainFile(selectedData) /\ loaderStarts > 0 /\ loadFileRemaining = 0)
         => PlacedBy(1)

\* C2 as amended: the single decrement of a run is made by the terrain-file
\* callback, once the texture creation has been started; in the
\* placeholder-only version the plane is in the group by then, in the
\* fetching version the plane is placed only later, by the image or by the
\* fallback, and never without the decrement having been made.
C2_DecrementInTerrainCallback ==
    \A r \in Runs :
        /\ run[r].dec = IF run[r].st \in {"textureLoading", "placed"}
                        THEN 1 ELSE 0
        /\ PlacedBy(r) <=> run[r].st = "placed"
        /\ (variant = "placeholder" /\ run[r].dec = 1) => PlacedBy(r)

\* the fetching version with the counter at 0 and no plane placed yet
C2_Witness ==
    /\ variant = "fetch"
    /\ run[1].st = "textureLoading"
    /\ run[1].dec = 1
    /\ loadFileRemaining = 0
    /\ terrain = <<>>

\* C3: on every exit path of loadAerialImagery, the failed fetch of the
\* terrain file and a malformed collection included, the counter has been
\* decremented exactly once.
C3_DecrementOnEveryExit ==
    \A r \in Runs :
        run[r].st \in {"fetchFailed", "threw", "placed"} => run[r].dec = 1

\* C4: when the image is rejected the failure stays inside the aligner: the
\* run ends placed, the scene holds one "terrain" group with one plane, that
\* plane uses the placeholder texture, and the counter was decremented once.
C4_RejectedImageFallsBack ==
    \A r \in Runs :
        run[r].image = "rejected" =>
            /\ run[r].st = "placed"
            /\ Len(terrain) = 1
            /\ terrain[1] = <<Plane(r, "placeholder")>>
            /\ run[r].dec = 1

\* a session whose image fetch was rejected after the scene was set up
C4_Witness ==
    /\ run[1].image = "rejected"
    /\ run[1].st = "placed"
    /\ toggles = 1

\* C5: however many runs place planes and in whatever order their images
\* settle, the visibility toggle is registered exactly once: with the first
\* plane, which creates the group; later planes join that group.
C5_ToggleRegisteredOnce ==
    /\ toggles = IF terrain = <<>> THEN 0 ELSE 1
    /\ \A r \in Runs :
         run[r].st = "placed" =>
             \E k \in DOMAIN terrain[1] : terrain[1][k].run = r

\* two runs placed, one by its image and one by the fallback, one toggle
C5_Witness ==
    /\ toggles = 1
    /\ Len(terrain) = 1
    /\ \E j, k \in DOMAIN terrain[1] :
         /\ terrain[1][j].run # terrain[1][k].run
         /\ terrain[1][j].texture = "image"
         /\ terrain[1][k].texture = "placeholder"

\* C6: a loader is called only after the origin was resolved, and with the
\* resolved origin, never with the initial [0, 0].
C6_OriginResolvedBeforeLoads ==
    StartedOrigins # {} =>
        /\ OriginResolved
        /\ \A o \in StartedOrigins : o = center /\ o # <<0, 0>>

\* loaders running with the center the venue declares
C6_Witness ==
    /\ selectedData.present
    /\ selectedData.center # <<>>
    /\ StartedOrigins = {selectedData.center}
    /\ \E i \in DOMAIN geo : geo[i].st = "loading"

\* C7: a teardown after the scene was set up disposes the renderer and the
\* controls, disposes every line geometry of meshLines, clears the scene and
\* destroys the GUI.
C7_TeardownReleasesScene ==
    [][(pc = "mounted" /\ loaderStarts > 0 /\ pc' = "unmounted") =>
          /\ res'.renderer = "disposed"
          /\ res'.controls = "disposed"
          /\ res'.gui = "destroyed"
          /\ \A i \in DOMAIN meshLines' : meshLines'[i] = "disposed"
          /\ terrain' = <<>>]_vars

\* C8: a terrain callback or an image completion that fires after teardown
\* adds no plane or group, registers no toggle and leaves the counter alone.
C8_LateCallbackIsNoOp ==
    [][(/\ pc = "unmounted"
        /\ \E r \in Runs :
             /\ run[r].st \in {"fetching", "textureLoading"}
             /\ run'[r].st \in {"textureLoading", "placed"}
             /\ run'[r].st # run[r].st) =>
          /\ terrain' = terrain
          /\ toggles' = toggles
          /\ loadFileRemaining' = loadFileRemaining]_vars

\* C9: for a key the manifest does not hold the component shows the "no
\* data" state: it does not crash and starts no load.
C9_AbsentKeyShowsNoData ==
    ~selectedData.present =>
        /\ pc \in {"constructed", "noData"}
        /\ loaderStarts = 0
        /\ StartedOrigins = {}

\* C10: once set the origin never changes, the loaders are started at most
\* once, and every load is given that one origin.
C10_OriginSetOnce ==
    [][/\ OriginResolved => center' = center
       /\ loaderStarts' <= 1
       /\ \A o \in StartedOrigins' : o = center']_vars

\* a computed origin with the geometry, network and terrain loads started
C10_Witness ==
    /\ scan = "done"
    /\ loaderStarts = 1
    /\ net.st = "loading"
    /\ run[1].st = "fetching"
    /\ \A i \in DOMAIN geo : geo[i].st = "loading"

\* C11: for a venue that declares a center, the origin is that point and
\* calculateCenterPoint is never started; the loaders get the declared point.
C11_DeclaredCenterIsOrigin ==
    (selectedData.present /\ selectedData.center # <<>>
       /\ pc \in {"mounted", "unmounted"}) =>
        /\ center = selectedData.center
        /\ scan = "none"
        /\ \A o \in StartedOrigins : o = selectedData.center

\* a declared center in use by a session whose imagery plane is placed
C11_Witness ==
    /\ selectedData.present
    /\ selectedData.center # <<>>
    /\ center = selectedData.center
    /\ scan = "none"
    /\ loaderStarts = 1
    /\ run[1].st = "placed"

\* C17: once the origin is resolved, whatever its value, the loads get
\* started: a mounted session whose re-render is done and which has no setup
\* pending has started its loaders.
C17_ResolvedOriginStartsLoads ==
    (OriginResolved /\ pc = "mounted" /\ ~dirty /\ setups = <<>>) =>
        loaderStarts > 0

\* planes of call r over all groups named "terrain"
PlanesOf(r) ==
    {gk \in {<<g, k>> : g \in DOMAIN terrain, k \in 1..(MaxRuns + 1)} :
        /\ gk[2] \in DOMAIN terrain[gk[1]]
        /\ terrain[gk[1]][gk[2]].run = r}

\* C19: the scene holds at most one group named "terrain", and a run has
\* exactly one plane in it once it has completed, none before.
C19_OneGroupOnePlanePerRun ==
    /\ Len(terrain) <= 1
    /\ \A r \in Runs :
         Cardinality(PlanesOf(r)) = IF run[r].st = "placed" THEN 1 ELSE 0

\* every run completed: one group holding one plane of each
C19_Witness ==
    /\ \A r \in Runs : run[r].st = "placed"
    /\ Len(terrain) = 1
    /\ Len(terrain[1]) = MaxRuns

\* C12: for planar bounds with minX <= maxX and minY <= maxY and any anchor,
\* calculateLatLonBounds returns southwest.lat <= northeast.lat and
\* southwest.lon <= northeast.lon, and center is the midpoint of the two.
C12_LatLonBoundsOrdered ==
    (/\ probe.fn = "calculateLatLonBounds"
     /\ probe.minX <= probe.maxX
     /\ probe.minY <= probe.maxY) =>
        LET b == probe.out IN
        /\ RLeq(b.southwest.lat, b.northeast.lat)
        /\ RLeq(b.southwest.lon, b.northeast.lon)
        /\ RAdd(b.center.lat, b.center.lat)
             = RAdd(b.southwest.lat, b.northeast.lat)
        /\ RAdd(b.center.lon, b.center.lon)
             = RAdd(b.southwest.lon, b.northeast.lon)

\* well-ordered bounds of positive extent on both axes
C12_Witness ==
    /\ probe.fn = "calculateLatLonBounds"
    /\ probe.minX < probe.maxX
    /\ probe.minY < probe.maxY
    /\ probe.out.southwest.lat # probe.out.northeast.lat
    /\ probe.out.southwest.lon # probe.out.northeast.lon

\* 2^r <= 360 * 256 / (delta * pixels): the axis's candidate
\* log2(360 / delta) - log2(pixels / 256) is at least r
AxisFits(delta, pixels, r) ==
    RLeq(RMulInt(RMulInt(delta, pixels), Pow2(r)), RInt(360 * 256))

\* z is the floor of the smallest candidate in play, clamped to [1, 20];
\* fits and fitsNext say that every such candidate is at least z, and at
\* least z + 1
IsClampedFloor(z, fits, fitsNext) ==
    /\ z \in 1..20
    /\ z > 1 => fits
    /\ z < 20 => ~fitsNext

\* C13: for bounds whose latitude and longitude extents are both positive
\* and a positive image size, calculateZoomLevel returns an integer in
\* [1, 20]: the floor of the smaller of the two candidates
\* log2(360 / delta) - log2(pixels / 256), clamped to [1, 20].
C13_ZoomIsClampedFloorOfMin ==
    (/\ probe.fn = "calculateZoomLevel"
     /\ probe.latDiff[1] > 0
     /\ probe.lonDiff[1] > 0) =>
        LET Both(r) == /\ AxisFits(probe.latDiff, probe.height, r)
                       /\ AxisFits(probe.lonDiff, probe.width, r)
        IN  IsClampedFloor(probe.out, Both(probe.out),
                                 Both(probe.out + 1))

\* both extents positive, the result strictly inside the clamp, and the
\* longitude axis alone keeping the result from being one higher
C13_Witness ==
    /\ probe.fn = "calculateZoomLevel"
    /\ probe.latDiff[1] > 0
    /\ probe.lonDiff[1] > 0
    /\ probe.out \in 2..19
    /\ AxisFits(probe.latDiff, probe.height, probe.out + 1)
    /\ ~AxisFits(probe.lonDiff, probe.width, probe.out + 1)

\* C14 as stated: when either the latitude extent or the longitude extent
\* of the bounds is 0, calculateZoomLevel returns the maximum zoom 20.
C14_ZeroExtentIsMaxZoom ==
    (/\ probe.fn = "calculateZoomLevel"
     /\ (probe.latDiff[1] = 0 \/ probe.lonDiff[1] = 0)) =>
        probe.out = 20

\* C14: zero-extent bounds are not special-cased.  A zero extent on one
\* axis makes that axis's candidate +Infinity, which the minimum discards:
\* the result is the clamped floor of the other axis's candidate, an integer
\* in [1, 20].  It is 20 when both extents are 0.
C14_ZeroExtentOtherAxisDecides ==
    probe.fn = "calculateZoomLevel" =>
        LET Lat(r) == AxisFits(probe.latDiff, probe.height, r)
            Lon(r) == AxisFits(probe.lonDiff, probe.width, r)
        IN  /\ (probe.latDiff[1] = 0 /\ probe.lonDiff[1] = 0) =>
                  probe.out = 20
            /\ (probe.latDiff[1] = 0 /\ probe.lonDiff[1] > 0) =>
                  IsClampedFloor(probe.out, Lon(probe.out),
                                 Lon(probe.out + 1))
            /\ (probe.latDiff[1] > 0 /\ probe.lonDiff[1] = 0) =>
                  IsClampedFloor(probe.out, Lat(probe.out),
                                 Lat(probe.out + 1))

\* a zero latitude extent with a longitude extent that keeps the zoom low
C14_Witness ==
    /\ probe.fn = "calculateZoomLevel"
    /\ probe.latDiff[1] = 0
    /\ probe.lonDiff[1] > 0
    /\ probe.out \in 2..19

\* the square bounds of the given extent, south-west corner at (0, 0)
SquareBounds(delta) ==
    [southwest |-> [lat |-> RInt(0), lon |-> RInt(0)],
     northeast |-> [lat |-> delta, lon |-> delta]]

\* the call is on square bounds of the given extent at 640x640
IsSquareCall(delta) ==
    /\ probe.fn = "calculateZoomLevel"
    /\ probe.width = 640
    /\ probe.height = 640
    /\ probe.latDiff = delta
    /\ probe.lonDiff = delta

\* C15 as stated: at 640x640, extents of 10 degrees give a zoom between 4
\* and 6, and extents of 0.001 degrees give a zoom higher than the
\* 10-degree result and at most 20.
C15_TenDegreesBetween4And6 ==
    /\ IsSquareCall(RInt(10)) => probe.out \in 4..6
    /\ IsSquareCall(<<1, 1000>>) =>
          /\ probe.out > calculateZoomLevel(SquareBounds(RInt(10)), 640, 640)
          /\ probe.out <= 20

\* C15: at 640x640, extents of 10 degrees give zoom 3, and extents of
\* 0.001 degrees give zoom 17, higher than the 10-degree result and at
\* most 20.
C15_SampleZooms ==
    /\ IsSquareCall(RInt(10)) => probe.out = 3
    /\ IsSquareCall(<<1, 1000>>) =>
          /\ probe.out = 17
          /\ probe.out > calculateZoomLevel(SquareBounds(RInt(10)), 640, 640)
          /\ probe.out <= 20

\* the 10-degree call has returned
C15_Witness == IsSquareCall(RInt(10)) /\ probe.out < 4

\* a variable holding a key: set, and not to the empty string
Configured(v) == v.set /\ v.value # ""

\* C16: getAerialImageUrl selects the provider by credential alone.  With
\* a configured key it fulfils with the keyed static-map URL built from the
\* bounds' center, the zoom and the size; with no key, unset or empty, it
\* fulfils with the tile URL addressed by zoom/tileY/tileX, where
\* tileX = floor((lon + 180) / 360 * 2^zoom).  It never rejects.
C16_ProviderByCredential ==
    probe.fn = "getAerialImageUrl" =>
        LET pub == probe.env.NEXT_PUBLIC_GOOGLE_MAPS_API_KEY
            srv == probe.env.GOOGLE_MAPS_API_KEY
            url == probe.out
            scaled == RMulInt(RAdd(probe.center.lon, RInt(180)),
                              Pow2(probe.zoom))
        IN  /\ url.status = "fulfilled"
            /\ (Configured(pub) \/ Configured(srv)) =>
                  /\ url.api = "staticmap"
                  /\ url.center = <<probe.center.lat, probe.center.lon>>
                  /\ url.zoom = probe.zoom
                  /\ url.size = <<probe.width, probe.height>>
                  /\ url.key = IF Configured(pub) THEN pub.value
                               ELSE srv.value
            /\ ~(Configured(pub) \/ Configured(srv)) =>
                  /\ url.api = "tile"
                  /\ url.zoom = probe.zoom
                  /\ RLeq(RInt(360 * url.tileX), scaled)
                  /\ ~RLeq(RInt(360 * (url.tileX + 1)), scaled)

\* an empty public key and no server key: the tile URL, at a column that is
\* not the first
C16_Witness ==
    /\ probe.fn = "getAerialImageUrl"
    /\ probe.env.NEXT_PUBLIC_GOOGLE_MAPS_API_KEY = [set |-> TRUE, value |-> ""]
    /\ probe.env.GOOGLE_MAPS_API_KEY = Unset
    /\ probe.out.api = "tile"
    /\ probe.out.tileX > 0

\* C18: whenever loadAerialImagery places a plane, the accumulated planar
\* bounds are finite with minX <= maxX and minY <= maxY, the plane's width
\* and height are finite and non-negative, and its position is the bounds'
\* midpoint; for every loaded collection, one with no features or no points
\* included.
C18_PlacedPlaneWellFormed ==
    probe.fn = "loadAerialImagery" =>
        LET b == probe.bounds
            g == probe.plane
        IN  /\ \A n \in {b.minX, b.maxX, b.minY, b.maxY} : n.k = "fin"
            /\ b.minX.v <= b.maxX.v
            /\ b.minY.v <= b.maxY.v
            /\ g.width = Num(b.maxX.v - b.minX.v)
            /\ g.height = Num(b.maxY.v - b.minY.v)
            /\ g.width.v >= 0
            /\ g.height.v >= 0
            /\ g.position[1].k = "fin"
            /\ g.position[2].k = "fin"
            /\ RAdd(g.position[1].v, g.position[1].v)
                 = RInt(b.minX.v + b.maxX.v)
            /\ RAdd(g.position[2].v, g.position[2].v)
                 = RInt(b.minY.v + b.maxY.v)

====
